---- MODULE Spec2Model ----
(***************************************************************************)
(* State-machine model of radioClass.py: the RadioState enumeration and    *)
(* the Radio record with its constructor, getState, encodeClientStatus,    *)
(* encodeConfig and decodeConfig, driven by an external controller that    *)
(* assigns the runtime-status attributes directly.                         *)
(***************************************************************************)
EXTENDS Integers, Sequences, FiniteSets, TLC

VARIABLES
    radio,  \* the Radio instance: a record of its eighteen attributes
    ret     \* the last operation performed on it and what it returned

vars == <<radio, ret>>

---------------------------------------------------------------------------
(* Bounds of the model *)

\* pass-through status attributes the controller holds away from their defaults
MaxDirty == 1

---------------------------------------------------------------------------
(* Python values: None and str are kept apart, so that the string "None"   *)
(* (a valid control mode) is not the absent value.                         *)

None == <<>>
Str(s) == <<s>>

StatusStrings == {"", "1"}

---------------------------------------------------------------------------
(* class RadioState(Enum) *)

\* the class body, in definition order
RadioStateDef ==
    << [name |-> "Disconnected",  value |-> 0],
       [name |-> "Idle",          value |-> 0],
       [name |-> "Receiving",     value |-> 1],
       [name |-> "Transmitting",  value |-> 2],
       [name |-> "ConnectError",  value |-> 10],
       [name |-> "TransmitError", value |-> 11],
       [name |-> "ReceiveError",  value |-> 12],
       [name |-> "UnknownError",  value |-> 20] >>

VariantNames == {RadioStateDef[i].name : i \in 1..Len(RadioStateDef)}

\* Enum lookup by attribute name, RadioState.<n>: a name whose value was
\* already defined is an alias and resolves to the first member with that value
RadioState(n) ==
    LET i == CHOOSE k \in 1..Len(RadioStateDef) : RadioStateDef[k].name = n
        j == CHOOSE k \in 1..Len(RadioStateDef) :
                /\ RadioStateDef[k].value = RadioStateDef[i].value
                /\ \A m \in 1..(k-1) : RadioStateDef[m].value # RadioStateDef[i].value
    IN  RadioStateDef[j]

---------------------------------------------------------------------------
(* class Radio *)

ConfigAttrs == {"name", "desc", "ctrlMode", "ctrlPort", "txDev", "rxDev", "sigMode", "sigId"}
StringAttrs == {"zone", "chan", "lastid"}
FlagAttrs == {"muted", "scanning", "talkaround", "monitor", "lowpower"}

\* variant: a radio that starts out as "unknown" until it is first connected
RadioNew_StartUnknown(name, desc, ctrlMode, ctrlPort, txDev, rxDev, signalMode, signalId) ==
    [ name |-> name, desc |-> desc, ctrlMode |-> ctrlMode, ctrlPort |-> ctrlPort,
      txDev |-> txDev, rxDev |-> rxDev, sigMode |-> signalMode, sigId |-> signalId,
      zone |-> "", chan |-> "", lastid |-> "",
      muted |-> FALSE, error |-> FALSE, scanning |-> FALSE,
      talkaround |-> FALSE, monitor |-> FALSE, lowpower |-> FALSE,
      state |-> RadioState("UnknownError") ]

\* Radio.__init__
RadioNew(name, desc, ctrlMode, ctrlPort, txDev, rxDev, signalMode, signalId) ==
    [ name |-> name, desc |-> desc, ctrlMode |-> ctrlMode, ctrlPort |-> ctrlPort,
      txDev |-> txDev, rxDev |-> rxDev, sigMode |-> signalMode, sigId |-> signalId,
      zone |-> "", chan |-> "", lastid |-> "",
      muted |-> FALSE, error |-> FALSE, scanning |-> FALSE,
      talkaround |-> FALSE, monitor |-> FALSE, lowpower |-> FALSE,
      state |-> RadioState("Disconnected") ]

\* variant: the transmit and receive branches carry each other's label
ErrorString_Crossed(state) ==
    IF state = RadioState("ConnectError") THEN "Connection Error"
    ELSE IF state = RadioState("TransmitError") THEN "Receive Error"
    ELSE IF state = RadioState("ReceiveError") THEN "Transmit Error"
    ELSE "Unknown Error"

\* the else branch of getState: the label of an error-range state
ErrorString(state) ==
    IF state = RadioState("ConnectError") THEN "Connection Error"
    ELSE IF state = RadioState("TransmitError") THEN "Transmit Error"
    ELSE IF state = RadioState("ReceiveError") THEN "Receive Error"
    ELSE "Unknown Error"

\* variant: the normal branch forgets to clear the flag
getState_KeepError(r) ==
    IF r.state.value < 10
    THEN [ self |-> r,
           value |-> <<r.state, r.state.name>> ]
    ELSE [ self |-> [r EXCEPT !.error = TRUE],
           value |-> <<r.state, ErrorString(r.state)>> ]

\* variant: the branch is chosen by the stored flag, which is refreshed afterwards
getState_StaleFlag(r) ==
    [ self |-> [r EXCEPT !.error = (r.state.value >= 10)],
      value |-> <<r.state, IF r.error THEN ErrorString(r.state) ELSE r.state.name>> ]

\* Radio.getState: the instance afterwards and the returned pair
getState(r) ==
    IF r.state.value < 10
    THEN [ self |-> [r EXCEPT !.error = FALSE],
           value |-> <<r.state, r.state.name>> ]
    ELSE [ self |-> [r EXCEPT !.error = TRUE],
           value |-> <<r.state, ErrorString(r.state)>> ]

\* variant: the error range is tested with > instead of >=
encodeClientStatus_Above10(r) ==
    LET g == getState(r)
        self == g.self
        state == g.value[1]
        stateString == g.value[2]
        stateText == IF state.value > 10 THEN "Error" ELSE stateString
        errorText == IF state.value > 10 THEN stateString ELSE ""
    IN  [ self |-> self,
          value |-> [ name |-> self.name, zone |-> self.zone, chan |-> self.chan,
                      lastid |-> self.lastid, state |-> stateText,
                      muted |-> self.muted, error |-> self.error,
                      errorText |-> errorText, scanning |-> self.scanning,
                      talkaround |-> self.talkaround, monitor |-> self.monitor,
                      lowpower |-> self.lowpower ] ]

\* variant: the label is computed without the call that refreshes self.error
encodeClientStatus_NoRefresh(r) ==
    LET state == r.state
        stateString == getState(r).value[2]
        stateText == IF state.value >= 10 THEN "Error" ELSE stateString
        errorText == IF state.value >= 10 THEN stateString ELSE ""
    IN  [ self |-> r,
          value |-> [ name |-> r.name, zone |-> r.zone, chan |-> r.chan,
                      lastid |-> r.lastid, state |-> stateText,
                      muted |-> r.muted, error |-> r.error,
                      errorText |-> errorText, scanning |-> r.scanning,
                      talkaround |-> r.talkaround, monitor |-> r.monitor,
                      lowpower |-> r.lowpower ] ]

\* Radio.encodeClientStatus: the instance afterwards and the returned dict
encodeClientStatus(r) ==
    LET g == getState(r)
        self == g.self
        state == g.value[1]
        stateString == g.value[2]
        stateText == IF state.value >= 10 THEN "Error" ELSE stateString
        errorText == IF state.value >= 10 THEN stateString ELSE ""
    IN  [ self |-> self,
          value |-> [ name |-> self.name, zone |-> self.zone, chan |-> self.chan,
                      lastid |-> self.lastid, state |-> stateText,
                      muted |-> self.muted, error |-> self.error,
                      errorText |-> errorText, scanning |-> self.scanning,
                      talkaround |-> self.talkaround, monitor |-> self.monitor,
                      lowpower |-> self.lowpower ] ]

\* variant: the current zone is persisted along with the configuration
encodeConfig_WithZone(r) ==
    [ self |-> r,
      value |-> [ name |-> r.name, desc |-> r.desc, ctrlMode |-> r.ctrlMode,
                  ctrlPort |-> r.ctrlPort, txDevice |-> r.txDev,
                  rxDevice |-> r.rxDev, sigMode |-> r.sigMode, sigId |-> r.sigId,
                  zone |-> r.zone ] ]

\* Radio.encodeConfig: the instance afterwards and the returned dict
encodeConfig(r) ==
    [ self |-> r,
      value |-> [ name |-> r.name, desc |-> r.desc, ctrlMode |-> r.ctrlMode,
                  ctrlPort |-> r.ctrlPort, txDevice |-> r.txDev,
                  rxDevice |-> r.rxDev, sigMode |-> r.sigMode, sigId |-> r.sigId ] ]

\* the subscripts of decodeConfig, in the order Python evaluates them
DecodeKeys ==
    <<"name", "desc", "ctrlMode", "ctrlPort", "txDevice", "rxDevice", "sigMode", "sigId">>

\* variant: the two audio devices are passed in each other's position
decodeConfig_SwapDev(radioDict) ==
    LET absent == {i \in 1..Len(DecodeKeys) : DecodeKeys[i] \notin DOMAIN radioDict}
    IN  IF absent # {}
        THEN [ raised |-> "KeyError",
               value |-> DecodeKeys[CHOOSE i \in absent : \A k \in absent : i <= k] ]
        ELSE [ raised |-> "",
               value |-> RadioNew(radioDict["name"], radioDict["desc"],
                                  radioDict["ctrlMode"], radioDict["ctrlPort"],
                                  radioDict["rxDevice"], radioDict["txDevice"],
                                  radioDict["sigMode"], radioDict["sigId"]) ]

\* variant: optional keys are read with dict.get, an absent one becoming None
decodeConfig_Get(radioDict) ==
    LET get(k) == IF k \in DOMAIN radioDict THEN radioDict[k] ELSE None
    IN  IF "name" \notin DOMAIN radioDict
        THEN [ raised |-> "KeyError", value |-> "name" ]
        ELSE [ raised |-> "",
               value |-> RadioNew(radioDict["name"], get("desc"), get("ctrlMode"),
                                  get("ctrlPort"), get("txDevice"), get("rxDevice"),
                                  get("sigMode"), get("sigId")) ]

\* Radio.decodeConfig: a new Radio, or the KeyError of the first absent key
decodeConfig(radioDict) ==
    LET absent == {i \in 1..Len(DecodeKeys) : DecodeKeys[i] \notin DOMAIN radioDict}
    IN  IF absent # {}
        THEN [ raised |-> "KeyError",
               value |-> DecodeKeys[CHOOSE i \in absent : \A k \in absent : i <= k] ]
        ELSE [ raised |-> "",
               value |-> RadioNew(radioDict["name"], radioDict["desc"],
                                  radioDict["ctrlMode"], radioDict["ctrlPort"],
                                  radioDict["txDevice"], radioDict["rxDevice"],
                                  radioDict["sigMode"], radioDict["sigId"]) ]

---------------------------------------------------------------------------
(* Inputs *)

OptArgNames == ConfigAttrs \ {"name"}

\* Radio("R1"): every optional argument left at its default
DefaultArgs == [k \in ConfigAttrs |-> IF k = "name" THEN Str("R1") ELSE None]

\* Radio("R2", ...): every optional argument given; "None" is the first entry
\* of controlModes and of signallingModes
FullArgs ==
    [ name |-> Str("R2"), desc |-> Str("Base station"), ctrlMode |-> Str("None"),
      ctrlPort |-> Str("/dev/ttyUSB0"), txDev |-> Str("hw:1,0"), rxDev |-> Str("hw:2,0"),
      sigMode |-> Str("MDC"), sigId |-> Str("1234") ]

\* constructor calls: no optional argument, exactly one, or all of them
CtorArgs ==
    {DefaultArgs, FullArgs}
        \cup {[DefaultArgs EXCEPT ![k] = FullArgs[k]] : k \in OptArgNames}

\* status entries a persisted mapping may carry besides the config keys
StatusDict ==
    [zone |-> "1", chan |-> "1", muted |-> TRUE, error |-> TRUE, state |-> "Error"]

ExtraKeySets == { {}, DOMAIN StatusDict }

\* no required key lost, or one of them
MissingKeySets == { {} } \cup { {DecodeKeys[i]} : i \in 1..Len(DecodeKeys) }

\* a dict without the keys in gone, joined with the entries of StatusDict in extra
Perturb(d, gone, extra) ==
    [ k \in (DOMAIN d \ gone) \cup extra |->
        IF k \in DOMAIN d \ gone THEN d[k] ELSE StatusDict[k] ]

Dirty(r) ==
    {k \in StringAttrs : r[k] # ""} \cup {k \in FlagAttrs : r[k] # FALSE}

---------------------------------------------------------------------------
(* Operations *)

Returned(op, raised, value) == [op |-> op, raised |-> raised, value |-> value]

\* r = Radio(name, ...)
Init ==
    \E a \in CtorArgs :
        /\ radio = RadioNew(a["name"], a["desc"], a["ctrlMode"], a["ctrlPort"],
                            a["txDev"], a["rxDev"], a["sigMode"], a["sigId"])
        /\ ret = Returned("__init__", "", None)

\* the controller: r.state = RadioState.<n>
SetState ==
    \E n \in VariantNames :
        /\ radio' = [radio EXCEPT !.state = RadioState(n)]
        /\ ret' = Returned("setState", "", n)

\* the controller: r.error = b
SetError ==
    \E b \in BOOLEAN :
        /\ radio' = [radio EXCEPT !.error = b]
        /\ ret' = Returned("setError", "", None)

\* the controller: r.zone / r.chan / r.lastid = s
SetString ==
    \E k \in StringAttrs, s \in StatusStrings :
        /\ radio' = [radio EXCEPT ![k] = s]
        /\ Cardinality(Dirty(radio')) <= MaxDirty
        /\ ret' = Returned("setStatus", "", None)

\* the controller: r.muted / r.scanning / ... = b
SetFlag ==
    \E k \in FlagAttrs, b \in BOOLEAN :
        /\ radio' = [radio EXCEPT ![k] = b]
        /\ Cardinality(Dirty(radio')) <= MaxDirty
        /\ ret' = Returned("setStatus", "", None)

\* r.getState(); repeat marks a call that directly follows another getState()
GetState ==
    /\ radio' = getState(radio).self
    /\ ret' = [ op |-> "getState", raised |-> "", value |-> getState(radio).value,
                repeat |-> (ret.op = "getState") ]

EncodeClientStatus ==
    /\ radio' = encodeClientStatus(radio).self
    /\ ret' = Returned("encodeClientStatus", "", encodeClientStatus(radio).value)

EncodeConfig ==
    /\ radio' = encodeConfig(radio).self
    /\ ret' = Returned("encodeConfig", "", encodeConfig(radio).value)

\* Radio.decodeConfig(d), d a persisted encodeConfig() of this radio, possibly
\* with keys lost and status keys added
DecodeConfig ==
    \E gone \in MissingKeySets, extra \in ExtraKeySets :
        /\ UNCHANGED radio
        /\ LET d == Perturb(encodeConfig(radio).value, gone, extra)
           IN  ret' = [ op |-> "decodeConfig", raised |-> decodeConfig(d).raised,
                        value |-> decodeConfig(d).value, arg |-> d ]

Next ==
    \/ SetState
    \/ SetError
    \/ SetString
    \/ SetFlag
    \/ GetState
    \/ EncodeClientStatus
    \/ EncodeConfig
    \/ DecodeConfig

Spec == Init /\ [][Next]_vars

---------------------------------------------------------------------------
(* Properties *)

\* the value the class body gives the variant named n
DeclaredValue(n) ==
    RadioStateDef[CHOOSE k \in 1..Len(RadioStateDef) : RadioStateDef[k].name = n].value

ConfigKeys == {DecodeKeys[i] : i \in 1..Len(DecodeKeys)}
StatusKeys ==
    {"zone", "chan", "lastid", "muted", "error", "scanning", "talkaround", "monitor", "lowpower"}

\* every runtime-status attribute as the constructor leaves it
AtDefaults(r) ==
    /\ r.zone = "" /\ r.chan = "" /\ r.lastid = ""
    /\ ~r.muted /\ ~r.error /\ ~r.scanning
    /\ ~r.talkaround /\ ~r.monitor /\ ~r.lowpower
    /\ r.state.name = "Disconnected"

SameConfig(r, q) == \A k \in ConfigAttrs : r[k] = q[k]

\* C1: after the controller assigns a variant whose value is below 10, the
\* next getState() or encodeClientStatus() reports that variant's own name
\* as the label, so Idle and Disconnected stay distinguishable.
C1_LabelIsAssignedName ==
    [][ (ret.op = "setState" /\ DeclaredValue(ret.value) < 10)
            => /\ ret'.op = "getState" => ret'.value[2] = ret.value
               /\ ret'.op = "encodeClientStatus" => ret'.value.state = ret.value ]_vars

\* C2: right after getState() the error flag is true exactly when the value
\* of the current state is at least 10, whatever the flag was before.
C2_ErrorIffErrorRange ==
    ret.op = "getState" =>
        /\ radio.error <=> radio.state.value >= 10
        /\ radio.state.name \in {"ConnectError", "TransmitError", "ReceiveError", "UnknownError"}
               => radio.error
        /\ radio.state.name \in {"Disconnected", "Receiving", "Transmitting"}
               => ~radio.error

C2_Witness ==
    /\ ret.op = "getState"
    /\ radio.state.name = "Transmitting"
    /\ ~radio.error

\* C3: the "state" entry of encodeClientStatus() is "Error" exactly for a
\* state of value 10 or more; then errorText is the non-empty label of
\* getState(), otherwise errorText is empty and "state" is the plain label.
C3_StatusStateText ==
    ret.op = "encodeClientStatus" =>
        /\ ret.value.state = "Error" <=> radio.state.value >= 10
        /\ radio.state.value >= 10 =>
               /\ ret.value.errorText = getState(radio).value[2]
               /\ ret.value.errorText # ""
        /\ radio.state.value < 10 =>
               /\ ret.value.errorText = ""
               /\ ret.value.state = getState(radio).value[2]
        /\ radio.state.name = "ReceiveError" =>
               /\ ret.value.state = "Error"
               /\ ret.value.errorText = "Receive Error"
               /\ ret.value.error

C3_Witness ==
    /\ ret.op = "encodeClientStatus"
    /\ radio.state.name = "ConnectError"
    /\ ret.value.errorText = "Connection Error"

\* C4: decodeConfig(r.encodeConfig()) is a Radio with r's eight config
\* attributes and every runtime-status attribute at its default, whatever
\* r's runtime status was.
C4_ConfigRoundTrip ==
    (ret.op = "decodeConfig" /\ ret.arg = encodeConfig(radio).value) =>
        /\ ret.raised = ""
        /\ SameConfig(ret.value, radio)
        /\ AtDefaults(ret.value)

C4_Witness ==
    /\ ret.op = "decodeConfig"
    /\ ret.arg = encodeConfig(radio).value
    /\ radio.txDev # None
    /\ radio.rxDev # radio.txDev
    /\ radio.state.value >= 10
    /\ radio.error
    /\ Dirty(radio) # {}

\* C5: the label of an error-range state follows the variant: the three
\* named errors have their own text and everything else in the range,
\* UnknownError included, reads "Unknown Error"; nothing is raised.
C5_ErrorLabels ==
    (ret.op = "getState" /\ radio.state.value >= 10) =>
        /\ ret.raised = ""
        /\ ret.value[2] =
               CASE radio.state.name = "ConnectError" -> "Connection Error"
                 [] radio.state.name = "TransmitError" -> "Transmit Error"
                 [] radio.state.name = "ReceiveError" -> "Receive Error"
                 [] OTHER -> "Unknown Error"

C5_Witness ==
    /\ ret.op = "getState"
    /\ radio.state.name = "TransmitError"
    /\ ret.value[2] = "Transmit Error"

\* C6: decodeConfig raises KeyError and yields no Radio exactly when one of
\* the eight keys is absent; with all eight present (None values and extra
\* status keys included) it yields a Radio at its runtime defaults.
C6_MissingKeyRaises ==
    ret.op = "decodeConfig" =>
        /\ ret.raised = "KeyError" <=> ~(ConfigKeys \subseteq DOMAIN ret.arg)
        /\ ret.raised = "KeyError" =>
               /\ ret.value \in ConfigKeys
               /\ ret.value \notin DOMAIN ret.arg
        /\ ConfigKeys \subseteq DOMAIN ret.arg =>
               /\ ret.raised = ""
               /\ AtDefaults(ret.value)
               /\ ret.value.name = ret.arg["name"]
               /\ ret.value.desc = ret.arg["desc"]
               /\ ret.value.ctrlMode = ret.arg["ctrlMode"]
               /\ ret.value.ctrlPort = ret.arg["ctrlPort"]
               /\ ret.value.txDev = ret.arg["txDevice"]
               /\ ret.value.rxDev = ret.arg["rxDevice"]
               /\ ret.value.sigMode = ret.arg["sigMode"]
               /\ ret.value.sigId = ret.arg["sigId"]

C6_Witness ==
    /\ ret.op = "decodeConfig"
    /\ "sigMode" \notin DOMAIN ret.arg
    /\ "zone" \in DOMAIN ret.arg
    /\ ret.raised = "KeyError"

\* C7: encodeConfig() returns exactly the eight config keys and none of the
\* status keys, its result depends on the config attributes alone, and the
\* call leaves every attribute of the Radio as it was.
C7_EncodeConfigPure ==
    /\ [](ret.op = "encodeConfig" =>
            /\ DOMAIN ret.value = ConfigKeys
            /\ DOMAIN ret.value \cap StatusKeys = {}
            /\ ret.value = encodeConfig(RadioNew(radio.name, radio.desc, radio.ctrlMode,
                                                 radio.ctrlPort, radio.txDev, radio.rxDev,
                                                 radio.sigMode, radio.sigId)).value)
    /\ [][ret'.op = "encodeConfig" => radio' = radio]_vars

C7_Witness ==
    /\ ret.op = "encodeConfig"
    /\ radio.state.value >= 10
    /\ Dirty(radio) # {}
    /\ radio.sigId # None

\* C8: a getState() that directly follows a getState() returns the same
\* pair and leaves the error flag as the first call left it.
C8_GetStateIdempotent ==
    [][ (ret.op = "getState" /\ ret'.op = "getState")
            => /\ ret'.value = ret.value
               /\ radio'.error = radio.error ]_vars

C8_Witness ==
    /\ ret.op = "getState"
    /\ ret.repeat
    /\ radio.state.value >= 10
    /\ radio.error

\* C9: a Radio fresh from the constructor or from decodeConfig is
\* Disconnected with every runtime-status attribute at its default, and a
\* getState() at that point leaves error false.
C9_FreshRadioDefaults ==
    /\ [](/\ ret.op = "__init__" => AtDefaults(radio)
          /\ (ret.op = "decodeConfig" /\ ret.raised = "") =>
                 /\ AtDefaults(ret.value)
                 /\ ~getState(ret.value).self.error)
    /\ [][(ret.op = "__init__" /\ ret'.op = "getState") => ~radio'.error]_vars

C9_Witness ==
    /\ ret.op = "decodeConfig"
    /\ ret.raised = ""
    /\ "state" \in DOMAIN ret.arg
    /\ radio.state.value >= 10
    /\ radio.error

\* C10: whatever the controller wrote to state and error beforehand, the
\* dict of encodeClientStatus() has error true exactly when its state is
\* "Error" and exactly when its errorText is non-empty; getState() and
\* encodeClientStatus() change no attribute but error.
C10_StatusConsistent ==
    /\ [](ret.op = "encodeClientStatus" =>
            /\ ret.value.error <=> ret.value.state = "Error"
            /\ ret.value.error <=> ret.value.errorText # "")
    /\ [][ret'.op \in {"getState", "encodeClientStatus"}
            => radio' = [radio EXCEPT !.error = radio'.error]]_vars

C10_Witness ==
    /\ ret.op = "encodeClientStatus"
    /\ ret.value.error
    /\ ret.value.state = "Error"
    /\ ret.value.zone = "1"

====
